---- MODULE Spec2Model ----
(***************************************************************************)
(* Model of the place browser `Home` of map-wedo.                          *)
(*                                                                         *)
(*   src/unnamed/part_000   the current page component: geolocation,       *)
(*                          fetch, distance/filter/sort pipeline,          *)
(*                          pagination, tag vocabulary        (Spec)       *)
(*   src/app/page.tsx       the first version of the page: fetch,          *)
(*                          search/category filter, getTags   (SpecV1)     *)
(*                                                                         *)
(* Strings are sequences of one-character strings, so that toLowerCase and *)
(* includes are computed, not assumed.  A React event handler with the     *)
(* re-render it causes is one action; the state updates of one handler are *)
(* applied together.  fetchPlaces is called once, by the mount effect, and *)
(* completes at most once; getCurrentPosition calls one of its callbacks   *)
(* at most once.  Coordinates are whole degrees near the equator and       *)
(* distances whole kilometres.                                             *)
(***************************************************************************)
EXTENDS Integers, Sequences, FiniteSets, TLC

\* ------------------------------------------------------------------ bounds
MaxPlaces == 2       \* longest list a fetch returns, besides the long list
ManyPlaces == 75     \* length of the long list (pagination, tag vocabulary)
ManyTags == 18       \* number of distinct tags in the long list
MaxSortLen == 5      \* longest list given to the sort step on its own
MaxRenders == 3      \* render passes followed in the first version

\* ------------------------------------------------------- program constants
PAGE_SIZE == 30
TagLimit == 15

\* ------------------------------------------------------------------ strings
Min(a, b) == IF a <= b THEN a ELSE b

Abs(x) == IF x < 0 THEN -x ELSE x

S(c) == <<c>>

\* String.prototype.toLowerCase, on the characters the model uses
LowerChar(c) ==
  CASE c = "A" -> "a"
    [] c = "B" -> "b"
    [] c = "T" -> "t"
    [] OTHER -> c

toLowerCase(s) == [i \in 1..Len(s) |-> LowerChar(s[i])]

\* String.prototype.includes: sub occurs in s as a contiguous substring
includes(s, sub) ==
  \E k \in 0..(Len(s) - Len(sub)) :
    \A i \in 1..Len(sub) : s[k + i] = sub[i]

\* Array.prototype.includes on an array of strings
arrayIncludes(arr, x) == \E i \in 1..Len(arr) : arr[i] = x

Digits == <<"0", "1", "2", "3", "4", "5", "6", "7", "8", "9">>

\* --------------------------------------------------------------- the data
CategoryIds == <<"food", "travel", "dive", "pet">>

Categories == {CategoryIds[i] : i \in 1..Len(CategoryIds)}

NullLocation == [kind |-> "null", lng |-> 0, lat |-> 0]

Wkt(lng, lat) == [kind |-> "wkt", lng |-> lng, lat |-> lat]

\* "POINT(x y)": matched by the pattern, but the tokens are not numbers
BadWkt == [kind |-> "nan", lng |-> 0, lat |-> 0]

\* a structured (non-string) location value
ObjectLocation == [kind |-> "object", lng |-> 1, lat |-> 0]

NoTags == [hasTags |-> FALSE, tags |-> <<>>]

Tags(ts) == [hasTags |-> TRUE, tags |-> ts]

MkPlace(n, c, sub, loc, md) ==
  [name |-> n, category |-> c, subcategory |-> sub, location |-> loc, metadata |-> md]

PlaceUniverse ==
  { MkPlace(<<"A", "b">>, "food", <<>>, Wkt(2, 0), Tags(<<S("a")>>)),
    MkPlace(<<"a", " ", "b">>, "food", <<"s">>, Wkt(0, 0), Tags(<<S("B"), S("a")>>)),
    MkPlace(<<"b">>, "food", <<>>, ObjectLocation, NoTags),
    MkPlace(<<"T">>, "food", <<>>, Wkt(1, 0), Tags(<<S("B")>>)),
    MkPlace(<<"B">>, "dive", <<"s">>, Wkt(0, 1), Tags(<<S("B"), <<"a", "b">>>>)),
    MkPlace(<<"a">>, "food", <<"s">>, BadWkt, Tags(<<>>)) }

RECURSIVE SeqsUpTo(_, _)
SeqsUpTo(U, n) ==
  IF n = 0 THEN {<<>>}
  ELSE LET shorter == SeqsUpTo(U, n - 1)
       IN shorter \cup {Append(s, x) : s \in {t \in shorter : Len(t) = n - 1}, x \in U}

\* tag k of the long list: "t00", "t01", ...
TagNo(k) == <<"t", Digits[(k \div 10) + 1], Digits[(k % 10) + 1]>>

LongPlace(i) ==
  MkPlace(IF i % 2 = 0 THEN <<"A", "b">> ELSE <<"b">>, "food", <<>>, NullLocation,
          Tags(<<TagNo((i - 1) % ManyTags)>>))

LongList == [i \in 1..ManyPlaces |-> LongPlace(i)]

\* what `select('*')` can return in `data`
FetchData == SeqsUpTo(PlaceUniverse, MaxPlaces) \cup {LongList}

\* what the user can type into the search input
SearchTerms == {<<>>, <<" ">>, <<"a">>, <<"B">>}

NoLocation == [set |-> FALSE, lat |-> 0, lng |-> 0]

Coord(lat, lng) == [set |-> TRUE, lat |-> lat, lng |-> lng]

\* positions the geolocation provider can report
Positions == {Coord(0, 0), Coord(1, 2)}

SortEngines == {"binaryInsertion", "linearInsertion"}

VARIABLES
  places,           \* useState<Place[]>([])
  loading,          \* useState(true)
  searchTerm,       \* useState('')
  activeCategory,   \* useState('food')  (first version: 'all')
  activeTag,        \* useState('')
  userLocation,     \* useState(null)
  page,             \* useState(1)
  fetchStatus,      \* the fetchPlaces call: "pending", "ok", "error"
  geo,              \* the geolocation request: "unsupported", "pending", "success", "error"
  engine,           \* the sort algorithm of the JavaScript engine running the page
  processedPlaces,  \* value held by useMemo(..., [places, activeCategory, searchTerm, activeTag, userLocation])
  availableTags,    \* value held by useMemo(..., [places, activeCategory])
  filteredIdx,      \* first version: the places (by index) held by useMemo(..., [places, searchTerm, activeCategory])
  fetched,          \* history: what the fetch returned
  renders,          \* history: render passes so far (first version only)
  result,           \* the sort step on its own: the local array `result`
  pc                \* the sort step on its own: "filtered" before result.sort, "sorted" after

vars == <<places, loading, searchTerm, activeCategory, activeTag, userLocation, page,
          fetchStatus, geo, engine, processedPlaces, availableTags, filteredIdx, fetched,
          renders, result, pc>>

pageVars == <<places, loading, searchTerm, activeCategory, activeTag, userLocation, page,
              fetchStatus, geo, engine, processedPlaces, availableTags, filteredIdx,
              fetched, renders>>

sortVars == <<result, pc>>

\* ------------------------------------------------- location and distance
NoCoordinate == [ok |-> FALSE, nan |-> FALSE, lat |-> 0, lng |-> 0]

\* parseLocation: only a string "POINT(<lon> <lat>)" yields a coordinate
parseLocation(loc) ==
  CASE loc.kind = "wkt" -> [ok |-> TRUE, nan |-> FALSE, lat |-> loc.lat, lng |-> loc.lng]
    [] loc.kind = "nan" -> [ok |-> TRUE, nan |-> TRUE, lat |-> 0, lng |-> 0]
    [] OTHER -> NoCoordinate

Undefined == [kind |-> "undefined", km |-> 0]

NaN == [kind |-> "NaN", km |-> 0]

Num(n) == [kind |-> "number", km |-> n]

\* the haversine formula with R = 6371 on whole degrees near the equator,
\* rounded to whole kilometres
getDistanceFromLatLonInKm(lat1, lon1, lat2, lon2) ==
  LET dLat == Abs(lat2 - lat1)
      dLon == Abs(lon2 - lon1)
  IN CASE dLat = 0 /\ dLon = 0 -> 0
       [] dLat = 0 /\ dLon = 1 -> 111
       [] dLat = 1 /\ dLon = 0 -> 111
       [] dLat = 1 /\ dLon = 1 -> 157
       [] dLat = 0 /\ dLon = 2 -> 222
       [] dLat = 1 /\ dLon = 2 -> 249

\* typeof x === 'number' (NaN is a number)
IsNumber(d) == d.kind \in {"number", "NaN"}

\* variant of DistanceOf: without a user location, measures from (0, 0)
DistanceOfFromOrigin(p, loc) ==
  LET pLoc == parseLocation(p.location)
  IN IF pLoc.ok
     THEN IF pLoc.nan THEN NaN
          ELSE Num(getDistanceFromLatLonInKm(IF loc.set THEN loc.lat ELSE 0,
                                             IF loc.set THEN loc.lng ELSE 0,
                                             pLoc.lat, pLoc.lng))
     ELSE Undefined

\* the distance step of processedPlaces: `dist` of one place
DistanceOf(p, loc) ==
  LET pLoc == parseLocation(p.location)
  IN IF loc.set /\ pLoc.ok
     THEN IF pLoc.nan THEN NaN
          ELSE Num(getDistanceFromLatLonInKm(loc.lat, loc.lng, pLoc.lat, pLoc.lng))
     ELSE Undefined

\* { ...p, distance: dist }: a new record, the place itself is not written
WithDistance(p, d) ==
  [name |-> p.name, category |-> p.category, subcategory |-> p.subcategory,
   location |-> p.location, metadata |-> p.metadata, distance |-> d]

\* variant of comparator: the operands of the subtraction exchanged
comparatorDescending(a, b) ==
  IF IsNumber(a.distance) /\ IsNumber(b.distance)
  THEN IF a.distance.kind = "NaN" \/ b.distance.kind = "NaN"
       THEN NaN
       ELSE Num(b.distance.km - a.distance.km)
  ELSE Num(0)

\* ------------------------------------------------------------- the sort
\* the comparator given to result.sort
comparator(a, b) ==
  IF IsNumber(a.distance) /\ IsNumber(b.distance)
  THEN IF a.distance.kind = "NaN" \/ b.distance.kind = "NaN"
       THEN NaN
       ELSE Num(a.distance.km - b.distance.km)
  ELSE Num(0)

\* Array.prototype.sort calls the comparator and reads NaN as +0
SortCompare(a, b) ==
  LET v == comparator(a, b) IN IF v.kind = "NaN" THEN 0 ELSE v.km

Reverse(s) == [i \in 1..Len(s) |-> s[Len(s) + 1 - i]]

\* the element at index from moved down to index to (to <= from)
MoveTo(arr, from, to) ==
  SubSeq(arr, 1, to - 1) \o <<arr[from]>> \o SubSeq(arr, to, from - 1)
    \o SubSeq(arr, from + 1, Len(arr))

\* length of the run that starts the array (descending iff the first
\* comparison is negative): the run stops at the first index that breaks it
RunEnd(arr, descending) ==
  LET breaks == {idx \in 3..Len(arr) :
                   descending # (SortCompare(arr[idx], arr[idx - 1]) < 0)}
  IN IF breaks = {} THEN Len(arr)
     ELSE (CHOOSE idx \in breaks : \A other \in breaks : idx <= other) - 1

RECURSIVE BinarySearch(_, _, _, _)
BinarySearch(arr, pivot, left, right) ==
  IF left < right
  THEN LET mid == left + ((right - left) \div 2)
       IN IF SortCompare(pivot, arr[mid]) < 0
          THEN BinarySearch(arr, pivot, left, mid)
          ELSE BinarySearch(arr, pivot, mid + 1, right)
  ELSE left

\* the insertion loop `for (; start < high; ++start)` over the indices lo..hi.
\* The range is split in halves and the first half is evaluated (half = half)
\* before the second is entered: the steps run in the order of the loop, and
\* the depth of evaluation stays logarithmic in its length.
RECURSIVE BinaryInsertionLoop(_, _, _)
BinaryInsertionLoop(arr, lo, hi) ==
  IF lo > hi THEN arr
  ELSE IF lo = hi THEN MoveTo(arr, lo, BinarySearch(arr, arr[lo], 1, lo))
  ELSE LET mid == (lo + hi) \div 2
           half == BinaryInsertionLoop(arr, lo, mid)
       IN IF half = half THEN BinaryInsertionLoop(half, mid + 1, hi) ELSE half

BinaryInsertionFrom(arr, start) == BinaryInsertionLoop(arr, start, Len(arr))

\* run detection followed by binary insertion: what a merge-run sort does to
\* an array shorter than its minimum run length
BinaryInsertionSort(arr) ==
  IF Len(arr) < 2 THEN arr
  ELSE LET descending == SortCompare(arr[2], arr[1]) < 0
           run == RunEnd(arr, descending)
           made == IF descending
                   THEN Reverse(SubSeq(arr, 1, run)) \o SubSeq(arr, run + 1, Len(arr))
                   ELSE arr
       IN BinaryInsertionFrom(made, run + 1)

RECURSIVE LinearSearch(_, _, _)
LinearSearch(arr, item, j) ==
  IF j >= 1 /\ SortCompare(arr[j], item) > 0 THEN LinearSearch(arr, item, j - 1) ELSE j + 1

\* the insertion loop `for (i = from + 1; i <= to; i++)` over lo..hi, split
\* in halves like BinaryInsertionLoop
RECURSIVE LinearInsertionLoop(_, _, _)
LinearInsertionLoop(arr, lo, hi) ==
  IF lo > hi THEN arr
  ELSE IF lo = hi THEN MoveTo(arr, lo, LinearSearch(arr, arr[lo], lo - 1))
  ELSE LET mid == (lo + hi) \div 2
           half == LinearInsertionLoop(arr, lo, mid)
       IN IF half = half THEN LinearInsertionLoop(half, mid + 1, hi) ELSE half

LinearInsertionFrom(arr, from) == LinearInsertionLoop(arr, from, Len(arr))

\* straight insertion: what a merge sort does to a short array
LinearInsertionSort(arr) == LinearInsertionFrom(arr, 2)

\* result.sort(comparator).  The comparator is not a consistent ordering once
\* numbers and non-numbers are mixed, and the order is then up to the engine:
\* eng ranges over the algorithms engines run on short arrays.  On a list with
\* no numeric distance every comparison is 0 and every stable sort agrees.
Sort(arr, eng) ==
  IF eng = "binaryInsertion" THEN BinaryInsertionSort(arr) ELSE LinearInsertionSort(arr)

\* --------------------------------------------------------- the pipeline
\* p.metadata?.tags?.some(t => t.toLowerCase().includes(lower))
SomeTagIncludes(p, lower) ==
  /\ p.metadata.hasTags
  /\ \E i \in 1..Len(p.metadata.tags) : includes(toLowerCase(p.metadata.tags[i]), lower)

MatchesSearch(p, term) ==
  LET lower == toLowerCase(term)
  IN includes(toLowerCase(p.name), lower) \/ SomeTagIncludes(p, lower)

\* p.metadata?.tags?.includes(activeTag)
HasTag(p, tag) == p.metadata.hasTags /\ arrayIncludes(p.metadata.tags, tag)

Annotated(ps, loc) == [i \in 1..Len(ps) |-> WithDistance(ps[i], DistanceOf(ps[i], loc))]

CategoryFilter(arr, cat) ==
  IF cat # "all" THEN SelectSeq(arr, LAMBDA p : p.category = cat) ELSE arr

\* `if (searchTerm)`: only the empty string skips the filter
SearchFilter(arr, term) ==
  IF term # <<>> THEN SelectSeq(arr, LAMBDA p : MatchesSearch(p, term)) ELSE arr

TagFilter(arr, tag) ==
  IF tag # <<>> THEN SelectSeq(arr, LAMBDA p : HasTag(p, tag)) ELSE arr

\* the body of the processedPlaces memo
ProcessedPlaces(ps, cat, term, tag, loc, eng) ==
  Sort(TagFilter(SearchFilter(CategoryFilter(Annotated(ps, loc), cat), term), tag), eng)

\* Array.prototype.slice(0, end)
SliceTo(arr, end) == SubSeq(arr, 1, Min(end, Len(arr)))

\* variant of VisiblePlaces: one page at a time instead of a growing prefix
VisiblePlacesOnePage(processed, pg) ==
  SubSeq(processed, Min((pg - 1) * PAGE_SIZE, Len(processed)) + 1,
         Min(pg * PAGE_SIZE, Len(processed)))

\* visiblePlaces = processedPlaces.slice(0, page * PAGE_SIZE)
VisiblePlaces(processed, pg) == SliceTo(processed, pg * PAGE_SIZE)

\* allTags.add(t): a Set keeps insertion order and ignores a value it holds
RECURSIVE AddAll(_, _, _)
AddAll(acc, ts, i) ==
  IF i > Len(ts) THEN acc
  ELSE AddAll(IF arrayIncludes(acc, ts[i]) THEN acc ELSE Append(acc, ts[i]), ts, i + 1)

\* categoryPlaces.forEach(p => p.metadata?.tags?.forEach(t => allTags.add(t)))
\* over the places lo..hi, split in halves like BinaryInsertionLoop
RECURSIVE CollectLoop(_, _, _, _)
CollectLoop(acc, ps, lo, hi) ==
  IF lo > hi THEN acc
  ELSE IF lo = hi
       THEN IF ps[lo].metadata.hasTags THEN AddAll(acc, ps[lo].metadata.tags, 1) ELSE acc
  ELSE LET mid == (lo + hi) \div 2
           half == CollectLoop(acc, ps, lo, mid)
       IN IF half = half THEN CollectLoop(half, ps, mid + 1, hi) ELSE half

CollectTags(ps) == CollectLoop(<<>>, ps, 1, Len(ps))

\* variant of AvailableTags: the tags of the places the search term keeps
AvailableTagsOfSearch(ps, cat) ==
  SliceTo(CollectTags(SearchFilter(SelectSeq(ps, LAMBDA p : p.category = cat), searchTerm)),
          TagLimit)

\* the body of the availableTags memo
AvailableTags(ps, cat) ==
  SliceTo(CollectTags(SelectSeq(ps, LAMBDA p : p.category = cat)), TagLimit)

\* ------------------------------------------------ the page (part_000)
\* `data` of the query result: null, or the rows
FetchResults ==
  {[isNull |-> TRUE, rows |-> <<>>]} \cup {[isNull |-> FALSE, rows |-> r] : r \in FetchData}

Init ==
  /\ places = <<>>
  /\ loading = TRUE
  /\ searchTerm = <<>>
  /\ activeCategory = "food"
  /\ activeTag = <<>>
  /\ userLocation = NoLocation
  /\ page = 1
  /\ fetchStatus = "pending"
  /\ geo \in {"unsupported", "pending"}
  /\ engine \in SortEngines
  /\ processedPlaces = <<>>
  /\ availableTags = <<>>
  /\ filteredIdx = <<>>
  /\ fetched = <<>>
  /\ renders = 0
  /\ result = <<>>
  /\ pc = "idle"

\* useMemo: the body runs again only when a dependency changed
MemoProcessed(ps, cat, term, tag, loc) ==
  IF <<ps, cat, term, tag, loc>> =
     <<places, activeCategory, searchTerm, activeTag, userLocation>>
  THEN processedPlaces
  ELSE ProcessedPlaces(ps, cat, term, tag, loc, engine)

MemoTags(ps, cat) ==
  IF <<ps, cat>> = <<places, activeCategory>> THEN availableTags ELSE AvailableTags(ps, cat)

\* the render pass that follows a state update
Rerender(ps, cat, term, tag, loc) ==
  /\ processedPlaces' = MemoProcessed(ps, cat, term, tag, loc)
  /\ availableTags' = MemoTags(ps, cat)

\* processedPlaces.length - visiblePlaces.length, the number on the button
Remaining == Len(processedPlaces) - Len(VisiblePlaces(processedPlaces, page))

\* the load-more button is rendered
LoadMoreOffered ==
  ~loading /\ Len(VisiblePlaces(processedPlaces, page)) < Len(processedPlaces)

\* fetchPlaces, after the await, without error
FetchOk(res) ==
  /\ fetchStatus = "pending"
  /\ places' = (IF res.isNull THEN <<>> ELSE res.rows)
  /\ loading' = FALSE
  /\ fetchStatus' = "ok"
  /\ fetched' = places'
  /\ Rerender(places', activeCategory, searchTerm, activeTag, userLocation)
  /\ UNCHANGED <<searchTerm, activeCategory, activeTag, userLocation, page, geo, engine,
                 filteredIdx, renders>>
  /\ UNCHANGED sortVars

\* variant of FetchError: returns from the error branch, before setLoading(false)
FetchErrorReturnsEarly ==
  /\ fetchStatus = "pending"
  /\ fetchStatus' = "error"
  /\ UNCHANGED <<places, loading, searchTerm, activeCategory, activeTag, userLocation, page,
                 geo, engine, processedPlaces, availableTags, filteredIdx, fetched, renders>>
  /\ UNCHANGED sortVars

\* fetchPlaces, after the await, with error
FetchError ==
  /\ fetchStatus = "pending"
  /\ loading' = FALSE
  /\ fetchStatus' = "error"
  /\ Rerender(places, activeCategory, searchTerm, activeTag, userLocation)
  /\ UNCHANGED <<places, searchTerm, activeCategory, activeTag, userLocation, page, geo,
                 engine, filteredIdx, fetched, renders>>
  /\ UNCHANGED sortVars

\* getCurrentPosition's success callback
GeoSuccess(pos) ==
  /\ geo = "pending"
  /\ geo' = "success"
  /\ userLocation' = pos
  /\ Rerender(places, activeCategory, searchTerm, activeTag, pos)
  /\ UNCHANGED <<places, loading, searchTerm, activeCategory, activeTag, page, fetchStatus,
                 engine, filteredIdx, fetched, renders>>
  /\ UNCHANGED sortVars

\* getCurrentPosition's error callback: console.error only
GeoError ==
  /\ geo = "pending"
  /\ geo' = "error"
  /\ UNCHANGED <<places, loading, searchTerm, activeCategory, activeTag, userLocation, page,
                 fetchStatus, engine, processedPlaces, availableTags, filteredIdx, fetched,
                 renders>>
  /\ UNCHANGED sortVars

\* variant of ClickCategory: without setPage(1)
ClickCategoryKeepsPage(cat) ==
  /\ activeCategory' = cat
  /\ activeTag' = <<>>
  /\ Rerender(places, cat, searchTerm, <<>>, userLocation)
  /\ UNCHANGED <<places, loading, searchTerm, userLocation, page, fetchStatus, geo, engine,
                 filteredIdx, fetched, renders>>
  /\ UNCHANGED sortVars

\* variant of ClickCategory: without setActiveTag('')
ClickCategoryKeepsTag(cat) ==
  /\ activeCategory' = cat
  /\ page' = 1
  /\ Rerender(places, cat, searchTerm, activeTag, userLocation)
  /\ UNCHANGED <<places, loading, searchTerm, activeTag, userLocation, fetchStatus, geo,
                 engine, filteredIdx, fetched, renders>>
  /\ UNCHANGED sortVars

\* onClick of a category tab
ClickCategory(cat) ==
  /\ activeCategory' = cat
  /\ activeTag' = <<>>
  /\ page' = 1
  /\ Rerender(places, cat, searchTerm, <<>>, userLocation)
  /\ UNCHANGED <<places, loading, searchTerm, userLocation, fetchStatus, geo, engine,
                 filteredIdx, fetched, renders>>
  /\ UNCHANGED sortVars

\* onChange of the search input
ChangeSearch(term) ==
  /\ term # searchTerm
  /\ searchTerm' = term
  /\ Rerender(places, activeCategory, term, activeTag, userLocation)
  /\ UNCHANGED <<places, loading, activeCategory, activeTag, userLocation, page, fetchStatus,
                 geo, engine, filteredIdx, fetched, renders>>
  /\ UNCHANGED sortVars

\* onClick of the "All" chip, rendered when availableTags.length > 0
ClickAllChip ==
  /\ Len(availableTags) > 0
  /\ activeTag' = <<>>
  /\ Rerender(places, activeCategory, searchTerm, <<>>, userLocation)
  /\ UNCHANGED <<places, loading, searchTerm, activeCategory, userLocation, page,
                 fetchStatus, geo, engine, filteredIdx, fetched, renders>>
  /\ UNCHANGED sortVars

\* onClick of the chip of availableTags[i]
ClickTagChip(i) ==
  /\ i \in 1..Len(availableTags)
  /\ activeTag' = availableTags[i]
  /\ Rerender(places, activeCategory, searchTerm, availableTags[i], userLocation)
  /\ UNCHANGED <<places, loading, searchTerm, activeCategory, userLocation, page,
                 fetchStatus, geo, engine, filteredIdx, fetched, renders>>
  /\ UNCHANGED sortVars

\* onClick of the load-more button
LoadMore ==
  /\ LoadMoreOffered
  /\ page' = page + 1
  /\ Rerender(places, activeCategory, searchTerm, activeTag, userLocation)
  /\ UNCHANGED <<places, loading, searchTerm, activeCategory, activeTag, userLocation,
                 fetchStatus, geo, engine, filteredIdx, fetched, renders>>
  /\ UNCHANGED sortVars

Next ==
  \/ \E res \in FetchResults : FetchOk(res)
  \/ FetchError
  \/ \E pos \in Positions : GeoSuccess(pos)
  \/ GeoError
  \/ \E cat \in Categories : ClickCategory(cat)
  \/ \E term \in SearchTerms : ChangeSearch(term)
  \/ ClickAllChip
  \/ \E i \in 1..TagLimit : ClickTagChip(i)
  \/ LoadMore

Spec == Init /\ [][Next]_vars

\* ------------------------------------------- the sort step on its own
\* distances the annotation step can give a place
DistanceValues == {Undefined, NaN, Num(0), Num(111), Num(222)}

\* the filtered array before result.sort: place i is named by the digit i
SortInput(ds) ==
  [i \in 1..Len(ds) |->
     WithDistance(MkPlace(<<Digits[i + 1]>>, "food", <<>>, NullLocation, NoTags), ds[i])]

InitSort ==
  /\ places = <<>>
  /\ loading = FALSE
  /\ searchTerm = <<>>
  /\ activeCategory = "food"
  /\ activeTag = <<>>
  /\ userLocation = NoLocation
  /\ page = 1
  /\ fetchStatus = "ok"
  /\ geo = "unsupported"
  /\ engine \in SortEngines
  /\ processedPlaces = <<>>
  /\ availableTags = <<>>
  /\ filteredIdx = <<>>
  /\ fetched = <<>>
  /\ renders = 0
  /\ result \in {SortInput(ds) : ds \in SeqsUpTo(DistanceValues, MaxSortLen)}
  /\ pc = "filtered"

\* result.sort((a, b) => ...)
SortStep ==
  /\ pc = "filtered"
  /\ result' = Sort(result, engine)
  /\ pc' = "sorted"
  /\ UNCHANGED pageVars

NextSort == SortStep

SpecSort == InitSort /\ [][NextSort]_vars

\* ------------------------------------- the first version (src/app/page.tsx)
V1Categories == {"all"} \cup Categories

InitV1 ==
  /\ places = <<>>
  /\ loading = TRUE
  /\ searchTerm = <<>>
  /\ activeCategory = "all"
  /\ activeTag = <<>>
  /\ userLocation = NoLocation
  /\ page = 1
  /\ fetchStatus = "pending"
  /\ geo = "unsupported"
  /\ engine = "binaryInsertion"
  /\ processedPlaces = <<>>
  /\ availableTags = <<>>
  /\ filteredIdx = <<>>
  /\ fetched = <<>>
  /\ renders = 0
  /\ result = <<>>
  /\ pc = "idle"

\* the predicate of filteredPlaces: there is no test of searchTerm before the match
V1Matches(place, term, cat) ==
  LET matchSearch ==
        \/ includes(toLowerCase(place.name), toLowerCase(term))
        \/ SomeTagIncludes(place, toLowerCase(term))
      matchCategory == cat = "all" \/ place.category = cat
  IN matchSearch /\ matchCategory

\* the body of the filteredPlaces memo; filter keeps the place objects
\* themselves, so the list is kept as the indices of the places it holds
V1FilteredPlaces(ps, term, cat) ==
  SelectSeq([i \in 1..Len(ps) |-> i], LAMBDA i : V1Matches(ps[i], term, cat))

\* getTags: defaultTags is place.metadata.tags itself when the place has tags,
\* and unshift writes into it; `tags` is the value returned, `place` the place
\* as the call leaves it
getTags(place) ==
  LET sub == place.subcategory
      defaultTags == IF place.metadata.hasTags THEN place.metadata.tags ELSE <<>>
      unshifted == IF sub # <<>> THEN <<sub>> \o defaultTags ELSE defaultTags
  IN [tags |-> SliceTo(unshifted, 3),
      place |-> IF place.metadata.hasTags
                THEN [place EXCEPT !.metadata.tags = unshifted]
                ELSE place]

\* the render pass: with loading false, one card and one getTags call per
\* place of filteredPlaces
V1RenderCards(ps, idx, ld) ==
  IF ld THEN ps
  ELSE [i \in 1..Len(ps) |-> IF arrayIncludes(idx, i) THEN getTags(ps[i]).place ELSE ps[i]]

\* a state update followed by its render pass; the memo runs again when a
\* dependency changed (setPlaces always installs a new array)
V1Rerender(ps, newArray, term, cat, ld) ==
  /\ filteredIdx' = IF newArray \/ <<term, cat>> # <<searchTerm, activeCategory>>
                    THEN V1FilteredPlaces(ps, term, cat)
                    ELSE filteredIdx
  /\ places' = V1RenderCards(ps, filteredIdx', ld)
  /\ renders' = renders + 1

V1FetchOk(res) ==
  /\ fetchStatus = "pending"
  /\ renders < MaxRenders
  /\ fetchStatus' = "ok"
  /\ loading' = FALSE
  /\ fetched' = (IF res.isNull THEN <<>> ELSE res.rows)
  /\ V1Rerender(fetched', TRUE, searchTerm, activeCategory, FALSE)
  /\ UNCHANGED <<searchTerm, activeCategory, activeTag, userLocation, page, geo, engine,
                 processedPlaces, availableTags>>
  /\ UNCHANGED sortVars

V1FetchError ==
  /\ fetchStatus = "pending"
  /\ renders < MaxRenders
  /\ fetchStatus' = "error"
  /\ loading' = FALSE
  /\ V1Rerender(places, FALSE, searchTerm, activeCategory, FALSE)
  /\ UNCHANGED <<searchTerm, activeCategory, activeTag, userLocation, page, geo, engine,
                 processedPlaces, availableTags, fetched>>
  /\ UNCHANGED sortVars

\* onChange of the search input
V1ChangeSearch(term) ==
  /\ term # searchTerm
  /\ renders < MaxRenders
  /\ searchTerm' = term
  /\ V1Rerender(places, FALSE, term, activeCategory, loading)
  /\ UNCHANGED <<loading, activeCategory, activeTag, userLocation, page, fetchStatus, geo,
                 engine, processedPlaces, availableTags, fetched>>
  /\ UNCHANGED sortVars

\* onClick of a category tab
V1ClickCategory(cat) ==
  /\ cat # activeCategory
  /\ renders < MaxRenders
  /\ activeCategory' = cat
  /\ V1Rerender(places, FALSE, searchTerm, cat, loading)
  /\ UNCHANGED <<loading, searchTerm, activeTag, userLocation, page, fetchStatus, geo,
                 engine, processedPlaces, availableTags, fetched>>
  /\ UNCHANGED sortVars

NextV1 ==
  \/ \E res \in FetchResults : V1FetchOk(res)
  \/ V1FetchError
  \/ \E term \in SearchTerms : V1ChangeSearch(term)
  \/ \E cat \in V1Categories : V1ClickCategory(cat)

SpecV1 == InitV1 /\ [][NextV1]_vars

\* -------------------------------------------------------- the properties
\* C1: each of the events 'change active category', 'change search term' and
\* 'select or clear a tag' leaves the current page equal to 1.
FilterChangeResetsPage ==
  [][(\/ activeCategory' # activeCategory
      \/ searchTerm' # searchTerm
      \/ activeTag' # activeTag) => page' = 1]_vars

\* C2: a click on a category tab sets the active category to the clicked one,
\* the page to 1 and the active tag to empty, and leaves the search term, the
\* raw place list and the user location as they were.
CategoryClickEffect ==
  [][\A cat \in Categories :
       ClickCategory(cat) =>
         /\ activeCategory' = cat
         /\ page' = 1
         /\ activeTag' = <<>>
         /\ searchTerm' = searchTerm
         /\ places' = places
         /\ userLocation' = userLocation]_vars

\* a category other than the initial one is active, on the long list, with a
\* search term and a user location kept across the click
CategoryClicked ==
  /\ activeCategory # "food"
  /\ page = 1
  /\ activeTag = <<>>
  /\ searchTerm # <<>>
  /\ userLocation.set
  /\ Len(places) = ManyPlaces

\* C3: the visible list is the first min(page * 30, N) entries of the processed
\* list, the remaining count is N minus the visible count and not negative,
\* load-more is offered exactly when the remaining count is positive, and with
\* N = 75 the visible counts are 30, 60, 75, then nothing remains.
PaginationWindow ==
  LET N == Len(processedPlaces)
      visible == VisiblePlaces(processedPlaces, page)
      want == IF page * 30 <= N THEN page * 30 ELSE N
  IN /\ Len(visible) = want
     /\ \A i \in 1..want : visible[i] = processedPlaces[i]
     /\ Remaining = N - want
     /\ Remaining >= 0
     /\ LoadMoreOffered <=> Remaining > 0
     /\ N = 75 =>
          /\ page \in 1..3
          /\ page = 1 => Len(visible) = 30 /\ LoadMoreOffered
          /\ page = 2 => Len(visible) = 60 /\ LoadMoreOffered
          /\ page = 3 => Len(visible) = 75 /\ Remaining = 0 /\ ~LoadMoreOffered

\* the third page of 75 results
ThirdPageOfSeventyFive ==
  Len(processedPlaces) = 75 /\ page = 3 /\ Remaining = 0 /\ ~loading

\* a distance a comparison can order: a number that is not NaN
Orderable(d) == d.kind = "number"

\* C4: the output of the sort step has no two adjacent places P then Q that
\* both have a defined distance with distance(P) > distance(Q), whatever the
\* mix of defined and undefined distances in the input.
SortedAdjacentDistances ==
  pc = "sorted" =>
    \A i \in 1..(Len(result) - 1) :
      Orderable(result[i].distance) /\ Orderable(result[i + 1].distance)
        => ~(result[i].distance.km > result[i + 1].distance.km)

\* a sorted output that mixes distances: a place without distance stands
\* between a farther place and a nearer one, and two adjacent places with
\* distances were exchanged by the sort
SortedMixedList ==
  /\ pc = "sorted"
  /\ \E i, j, k \in 1..Len(result) :
       /\ i < j /\ j < k
       /\ Orderable(result[i].distance) /\ Orderable(result[k].distance)
       /\ result[j].distance = Undefined
       /\ result[i].distance.km > result[k].distance.km
  /\ \E i \in 1..(Len(result) - 1) :
       /\ Orderable(result[i].distance) /\ Orderable(result[i + 1].distance)
       /\ result[i].name = <<Digits[i + 2]>>
       /\ result[i + 1].name = <<Digits[i + 1]>>

\* a string of whitespace only (the empty string included)
IsBlank(term) == \A i \in 1..Len(term) : term[i] = " "

\* C5: a search term that is empty or whitespace only yields the same
\* processed list as no search filter at all.
BlankSearchIsNoFilter ==
  IsBlank(searchTerm) =>
    processedPlaces =
      ProcessedPlaces(places, activeCategory, <<>>, activeTag, userLocation, engine)

\* the places of the active category
CategoryPlaces == SelectSeq(places, LAMBDA p : p.category = activeCategory)

\* C6: the tag vocabulary is the list of distinct tags of the places of the
\* active category, in order of first appearance, cut to the first 15; it is
\* decided by the raw place list and the active category alone.
TagVocabularyOfCategory ==
  LET ps == CategoryPlaces
      \* the tag occurrences <<place, position>>, and their reading order
      occ == UNION {{<<i, j>> : j \in 1..Len(ps[i].metadata.tags)} :
                      i \in {i \in 1..Len(ps) : ps[i].metadata.hasTags}}
      TagAt(o) == ps[o[1]].metadata.tags[o[2]]
      Before(a, b) == a[1] < b[1] \/ (a[1] = b[1] /\ a[2] < b[2])
      first == {o \in occ : \A e \in occ : TagAt(e) = TagAt(o) => ~Before(e, o)}
      Rank(o) == Cardinality({e \in first : Before(e, o)}) + 1
  IN /\ Len(availableTags) = (IF Cardinality(first) <= 15 THEN Cardinality(first) ELSE 15)
     /\ \A o \in first : Rank(o) <= 15 => availableTags[Rank(o)] = TagAt(o)

\* the vocabulary is cut at 15 while a search term and a tag narrow the list
\* and a second page is shown
VocabularyCutWhileNarrowed ==
  /\ Len(availableTags) = 15
  /\ Len(places) > 15
  /\ searchTerm # <<>>
  /\ activeTag # <<>>
  /\ page > 1
  /\ Len(processedPlaces) < Len(CategoryPlaces)

\* the empty-state message is rendered
EmptyStateShown == ~loading /\ Len(VisiblePlaces(processedPlaces, page)) = 0

\* C7: when the fetch completes with an error the place list is empty and the
\* loading flag is false, so the empty-state view is shown; the loading flag
\* is true exactly while the fetch has not completed.
FetchEndsLoading ==
  /\ loading <=> fetchStatus = "pending"
  /\ fetchStatus = "error" => places = <<>> /\ ~loading /\ EmptyStateShown

\* the fetch failed after the user had already typed and changed category
FetchFailed ==
  fetchStatus = "error" /\ ~loading /\ searchTerm # <<>> /\ activeCategory # "food"

\* the places that pass the three filters, in raw-list order, without distance
FilteredInRawOrder ==
  LET keep == SelectSeq(places,
                LAMBDA p : /\ p.category = activeCategory
                           /\ searchTerm = <<>> \/ MatchesSearch(p, searchTerm)
                           /\ activeTag = <<>> \/ HasTag(p, activeTag))
  IN [i \in 1..Len(keep) |-> WithDistance(keep[i], Undefined)]

RawPlacesAreWhatFetchReturned ==
  fetchStatus = "ok" => places = fetched

\* C10: the active tag is empty or a member of the tag vocabulary of the
\* current raw place list and the current active category.
ActiveTagInVocabulary ==
  activeTag = <<>> \/ arrayIncludes(AvailableTags(places, activeCategory), activeTag)

\* a tag is active in a category other than the initial one
TagActiveAfterCategoryChange ==
  /\ activeTag # <<>>
  /\ activeCategory # "food"
  /\ searchTerm # <<>>

====
